---- MODULE Spec2Model ----
(***************************************************************************)
(* CivicCare AI: the grievance triage core of src/App.tsx,                 *)
(* src/components/AuthorityDashboard.tsx and                               *)
(* src/components/CitizenPortal.tsx as a state machine.                    *)
(*                                                                         *)
(* Conventions.  An optional field (assignedTo?, resolutionNote?,          *)
(* aiAnalysis?.urgencyScore, history?, daysOverdue?) is a set with at most *)
(* one element: {} is undefined.  A grievance id "G-1024" is its number     *)
(* 1024.                                                                   *)
(* A timestamp is the millisecond count that new Date(iso).getTime()       *)
(* gives, counted from an epoch eight days before the page is loaded. Text *)
(* the code trims or searches (description, citizenName, resolutionNote,   *)
(* searchTerm) is a sequence of characters.                                *)
(***************************************************************************)
EXTENDS Integers, Sequences, FiniteSets, TLC

VARIABLES
    userRole,               \* App: Role, "null" when logged out
    selectedRoleForForm,    \* App: role picked on the landing page
    jurisdiction,           \* App: [state, city], '' when not chosen
    grievances,             \* App: the working set, newest first
    now,                    \* the wall clock (Date.now())
    searchTerm,             \* AuthorityDashboard: the search box
    activeTab,              \* AuthorityDashboard: 'all'; setActiveTab is never called
    resolutionModalOpen,    \* AuthorityDashboard
    resolutionGrievanceId,  \* AuthorityDashboard: {} is null
    resolutionNote,         \* AuthorityDashboard: the textarea's text
    officerModalOpen,       \* AuthorityDashboard
    selectedOfficer,        \* AuthorityDashboard: the profile's name; {} is null
    targetGrievanceId,      \* AuthorityDashboard: {} is null
    activeDropdown,         \* AuthorityDashboard: id of the row whose officer list is open
    alerts,                 \* AuthorityDashboard: useMemo cache of the alert scan
    stats,                  \* AuthorityDashboard: useMemo cache of the statistics
    description,            \* CitizenPortal: the textarea's text
    isSubmitting,           \* CitizenPortal
    images,                 \* CitizenPortal: the data URLs of the attached photos
    reads,                  \* CitizenPortal: FileReaders that have not yet ended
    inflight,               \* analyzeGrievance calls not yet settled
    failureAlerted,         \* the call settled last threw: the catch block's alert()
    waitlistForm,           \* WaitlistForm: [email, status, message]
    supabase,               \* supabaseService: the client, {} (null) without a key
    waitlist                \* the emails in the rows of the table 'waitlist'

vars == <<userRole, selectedRoleForForm, jurisdiction, grievances, now,
          searchTerm, activeTab, resolutionModalOpen, resolutionGrievanceId, resolutionNote,
          officerModalOpen, selectedOfficer, targetGrievanceId, activeDropdown,
          alerts, stats, description, isSubmitting, images, reads, inflight, failureAlerted,
          waitlistForm, supabase, waitlist>>

appVars == <<userRole, selectedRoleForForm, jurisdiction>>
officerVars == <<officerModalOpen, selectedOfficer, targetGrievanceId, activeDropdown>>
viewVars == <<searchTerm, activeTab, officerVars>>
dashVars == <<viewVars, resolutionModalOpen, resolutionGrievanceId, resolutionNote>>
memoVars == <<alerts, stats>>
attachVars == <<images, reads>>
portalVars == <<description, isSubmitting, attachVars>>
callVars == <<inflight, failureAlerted>>
waitlistVars == <<waitlistForm, supabase, waitlist>>

----------------------------------------------------------------------------
(* Bounds of the model *)

\* citizen submissions (started analyzeGrievance calls plus created grievances)
MaxNew == 1
\* steps of the wall clock in the application specification
MaxAppTicks == 1
\* whole days and single milliseconds the clock advances in the dashboard specification
MaxDashDays == 1
MaxDashMs == 1
\* length of the grievance lists handed to the dashboard
MaxLen == 2
\* files picked in one selection, and file reads in progress at one time
MaxFiles == 2
MaxReads == 2

----------------------------------------------------------------------------
(* types.ts *)

GrievanceStatus == <<"PENDING", "IN_PROGRESS", "RESOLVED", "REJECTED">>

Priority == <<"CRITICAL", "HIGH", "MEDIUM", "LOW">>

Range(s) == {s[i] : i \in 1..Len(s)}

None == {}
Some(x) == {x}
Get(o) == CHOOSE x \in o : TRUE

----------------------------------------------------------------------------
(* Time *)

MsPerDay == 1000 * 60 * 60 * 24

SlaDays == 7

\* Date.now() when the module is loaded and MOCK_GRIEVANCES is built
LoadTime == 8 * MsPerDay

Abs(x) == IF x < 0 THEN 0 - x ELSE x

\* Math.ceil(x / d) for x >= 0, d > 0
Ceil(x, d) == (x + d - 1) \div d

----------------------------------------------------------------------------
(* Text *)

Whitespace == {" ", "\t", "\n"}

\* String.prototype.trim: drop the leading and the trailing white space
Trim(s) ==
    LET keep == {i \in 1..Len(s) : s[i] \notin Whitespace}
        lo == CHOOSE i \in keep : \A j \in keep : i <= j
        hi == CHOOSE i \in keep : \A j \in keep : j <= i
    IN  IF keep = {} THEN <<>> ELSE SubSeq(s, lo, hi)

\* String.prototype.toLowerCase
UpperCase ==
    <<"A", "B", "C", "D", "E", "F", "G", "H", "I", "J", "K", "L", "M",
      "N", "O", "P", "Q", "R", "S", "T", "U", "V", "W", "X", "Y", "Z">>

LowerCase ==
    <<"a", "b", "c", "d", "e", "f", "g", "h", "i", "j", "k", "l", "m",
      "n", "o", "p", "q", "r", "s", "t", "u", "v", "w", "x", "y", "z">>

LowerCaseOf == [c \in Range(UpperCase) |-> LowerCase[CHOOSE i \in 1..26 : UpperCase[i] = c]]

ToLowerCase(s) ==
    [i \in 1..Len(s) |-> IF s[i] \in DOMAIN LowerCaseOf THEN LowerCaseOf[s[i]] ELSE s[i]]

\* String.prototype.includes
Includes(s, t) == \E i \in 0..(Len(s) - Len(t)) : SubSeq(s, i + 1, i + Len(t)) = t

----------------------------------------------------------------------------
(* App.tsx: reference data *)

NoRole == "null"

STATES == <<"Maharashtra", "Delhi", "Uttar Pradesh">>

CITIES ==
    [s \in Range(STATES) |->
        CASE s = "Maharashtra" -> <<"Mumbai", "Pune", "Nagpur">>
          [] s = "Delhi" -> <<"New Delhi", "North Delhi">>
          [] s = "Uttar Pradesh" -> <<"Noida", "Lucknow">>]

NoJurisdiction == [state |-> "", city |-> ""]

Grievance(id, name, desc, pri, st, ts, city, state, assigned, score) ==
    [id |-> id, citizenName |-> name, description |-> desc, priority |-> pri,
     status |-> st, timestamp |-> ts, city |-> city, state |-> state,
     assignedTo |-> assigned, resolutionNote |-> None, urgencyScore |-> score,
     evidenceUrls |-> <<>>, history |-> None]

\* history: [{ timestamp, action: 'Created', details }]
Created(t, details) == <<[timestamp |-> t, action |-> "Created", details |-> details]>>

WithHistory(g, h) == [g EXCEPT !.history = Some(h)]

WithEvidence(g, urls) == [g EXCEPT !.evidenceUrls = urls]

MOCK_GRIEVANCES ==
    << WithHistory(WithEvidence(Grievance(1024, <<"R", "a", "h", "u", "l", " ", "S", "h", "a", "r", "m", "a">>,
                 <<"p", "o", "t", "h", "o", "l", "e">>,
                 "HIGH", "PENDING", LoadTime,
                 "New Delhi", "Delhi", Some("Rajesh Kumar"), Some(85)),
                                <<"https://picsum.photos/400/300?random=1">>),
                   Created(LoadTime, "Grievance reported by citizen")),
       WithHistory(Grievance(1025, <<"U", "s", "e", "r", " ", "G", "u", "e", "s", "t">>,
                 <<"g", "a", "r", "b", "a", "g", "e">>,
                 "MEDIUM", "IN_PROGRESS", LoadTime - 86400000,
                 "Nagpur", "Maharashtra", Some("Sita Verma"), Some(65)),
                   Created(LoadTime - 86400000, "Reported")),
       WithHistory(Grievance(1026, <<"V", "i", "k", "r", "a", "m", " ", "S", "i", "n", "g", "h">>,
                 <<"l", "i", "v", "e", " ", "w", "i", "r", "e">>,
                 "CRITICAL", "PENDING", LoadTime - 3600000,
                 "New Delhi", "Delhi", None, Some(98)),
                   Created(LoadTime, "Reported")),
       WithHistory(Grievance(1027, <<"P", "r", "i", "y", "a", " ", "D", "e", "s", "a", "i">>,
                 <<"w", "a", "t", "e", "r">>,
                 "HIGH", "RESOLVED", LoadTime - 172800000,
                 "Pune", "Maharashtra", Some("Amit Singh"), Some(82)),
                   Created(LoadTime, "Reported")),
       WithHistory(Grievance(1028, <<"A", "n", "i", "l", " ", "K", "a", "p", "o", "o", "r">>,
                 <<"l", "i", "g", "h", "t", "s">>,
                 "MEDIUM", "PENDING", LoadTime - 40000000,
                 "Nagpur", "Maharashtra", None, Some(60)),
                   Created(LoadTime, "Reported")) >>

----------------------------------------------------------------------------
(* AuthorityDashboard.tsx: the pure functions of the triage core *)

\* Array.prototype.filter is SelectSeq.
\* Array.prototype.sort with a comparator: a stable sort (ECMAScript 2019).
\* The comparator is the function cmp on pairs of elements; cmp[<<a, b>>] > 0
\* puts b before a.  The elements are inserted one by one, each behind the
\* elements that do not have to follow it.
Insert(x, t, cmp) ==
    LET later == {i \in 1..Len(t) : cmp[<<t[i], x>>] > 0}
        pos == IF later = {} THEN Len(t) + 1
               ELSE CHOOSE i \in later : \A j \in later : i <= j
    IN  SubSeq(t, 1, pos - 1) \o <<x>> \o SubSeq(t, pos, Len(t))

StableSort(s, cmp) ==
    LET f[n \in 0..Len(s)] == IF n = 0 THEN <<>> ELSE Insert(s[n], f[n - 1], cmp)
    IN  f[Len(s)]

\* the comparator of a sort call, as a function on the pairs of the array
Pairs(s) == Range(s) \X Range(s)

\* 1. Filter Data by Jurisdiction
relevantGrievancesAdminByCity(gs, role, jur) ==
    IF role = "officer" /\ jur.city # ""
    THEN SelectSeq(gs, LAMBDA g : g.city = jur.city)
    ELSE IF role = "admin" /\ jur.state # ""
    THEN SelectSeq(gs, LAMBDA g : g.state = jur.state /\ (jur.city = "" \/ g.city = jur.city))
    ELSE gs

relevantGrievances(gs, role, jur) ==
    IF role = "officer" /\ jur.city # ""
    THEN SelectSeq(gs, LAMBDA g : g.city = jur.city)
    ELSE IF role = "admin" /\ jur.state # ""
    THEN SelectSeq(gs, LAMBDA g : g.state = jur.state)
    ELSE gs

\* 2. Statistics & Alert Logic
diffTime(g, t) == Abs(t - g.timestamp)

diffDays(g, t) == Ceil(diffTime(g, t), MsPerDay)

isSlaBreachAtSeven(g, t) == diffDays(g, t) >= SlaDays

isSlaBreachOnDayEight(g, t) == diffDays(g, t) = SlaDays + 1

isSlaBreach(g, t) == diffDays(g, t) > SlaDays

\* (g.aiAnalysis?.urgencyScore || 0)
urgencyScoreOrZero(g) == IF g.urgencyScore = None THEN 0 ELSE Get(g.urgencyScore)

isCritical(g) == g.priority = "CRITICAL" \/ urgencyScoreOrZero(g) >= 80

\* the forEach callback returns early for these
isClosed(g) == g.status = "RESOLVED" \/ g.status = "REJECTED"

alertTypeSlaFirst(g, t) ==
    IF isSlaBreach(g, t) THEN "SLA"
    ELSE IF isCritical(g) THEN "CRITICAL"
    ELSE "SLA"

alertType(g, t) ==
    IF isCritical(g) /\ isSlaBreach(g, t) THEN "BOTH"
    ELSE IF isCritical(g) THEN "CRITICAL"
    ELSE "SLA"

\* the template strings, as the sequence of their parts
alertMessage(g, t) ==
    IF isCritical(g) /\ isSlaBreach(g, t)
    THEN <<"Critical Risk & Overdue (+", diffDays(g, t) - SlaDays, " days)">>
    ELSE IF isCritical(g)
    THEN <<"High Urgency / Critical Priority detected">>
    ELSE <<"Overdue by ", diffDays(g, t) - SlaDays, " days">>

DashboardAlert(g, t) ==
    [id |-> g.id,
     grievance |-> g,
     type |-> alertType(g, t),
     message |-> alertMessage(g, t),
     daysOverdue |-> IF isSlaBreach(g, t) THEN Some(diffDays(g, t) - SlaDays) ELSE None]

\* the forEach loop: one push per grievance that passes both tests, in order
activeAlerts(rel, t) ==
    LET hit == SelectSeq(rel, LAMBDA g : ~isClosed(g) /\ (isSlaBreach(g, t) \/ isCritical(g)))
    IN  [i \in 1..Len(hit) |-> DashboardAlert(hit[i], t)]

escalatedCount(rel, t) == Len(SelectSeq(rel, LAMBDA g : ~isClosed(g) /\ isSlaBreach(g, t)))

\* Sort Alerts: BOTH > CRITICAL > SLA
score(type) == IF type = "BOTH" THEN 3 ELSE IF type = "CRITICAL" THEN 2 ELSE 1

alertCompareAscending(a, b) == score(a.type) - score(b.type)

alertCompare(a, b) == score(b.type) - score(a.type)

sortedAlerts(rel, t) ==
    StableSort(activeAlerts(rel, t),
               [p \in Pairs(activeAlerts(rel, t)) |-> alertCompare(p[1], p[2])])

dashboardStats(rel, t) ==
    LET resolved == Len(SelectSeq(rel, LAMBDA g : g.status = "RESOLVED"))
    IN  [total |-> Len(rel),
         pending |-> Len(SelectSeq(rel, LAMBDA g : g.status = "PENDING")),
         inProgress |-> Len(SelectSeq(rel, LAMBDA g : g.status = "IN_PROGRESS")),
         resolved |-> resolved,
         critical |-> Len(SelectSeq(rel, LAMBDA g : g.priority = "CRITICAL" \/ g.priority = "HIGH")),
         escalated |-> escalatedCount(rel, t),
         avgResolutionHours |-> IF resolved > 0 THEN 48 ELSE 0]

\* 3. Admin: City-wise Aggregation Data
\* the keys of cityMap in the order of their insertion by the forEach loop
cityKeys(rel) ==
    LET first == SelectSeq([i \in 1..Len(rel) |-> i],
                           LAMBDA i : \A k \in 1..(i - 1) : rel[k].city # rel[i].city)
    IN  [n \in 1..Len(first) |-> rel[first[n]].city]

\* the row of a city after the loop
cityRow(rel, c, t) ==
    [city |-> c,
     active |-> Len(SelectSeq(rel, LAMBDA g : g.city = c /\ g.status # "RESOLVED")),
     critical |-> Len(SelectSeq(rel, LAMBDA g : g.city = c /\ g.priority = "CRITICAL")),
     avgRes |-> "0 days",
     escalations |-> Len(SelectSeq(rel, LAMBDA g : /\ g.city = c
                                                    /\ diffTime(g, t) > SlaDays * MsPerDay
                                                    /\ g.status # "RESOLVED"))]

\* Populate mock data for demo visual completeness
mockCityRows(jur) ==
    IF jur.state = "Maharashtra"
    THEN <<[city |-> "Nagpur", active |-> 42, critical |-> 6, avgRes |-> "3.2 days", escalations |-> 4],
           [city |-> "Pune", active |-> 58, critical |-> 3, avgRes |-> "2.1 days", escalations |-> 1],
           [city |-> "Mumbai", active |-> 120, critical |-> 14, avgRes |-> "4.6 days", escalations |-> 9]>>
    ELSE IF jur.state = "Delhi"
    THEN <<[city |-> "New Delhi", active |-> 35, critical |-> 8, avgRes |-> "1.8 days", escalations |-> 2],
           [city |-> "North Delhi", active |-> 62, critical |-> 11, avgRes |-> "4.1 days", escalations |-> 7]>>
    ELSE <<>>

\* Object.values(cityMap): the rows in the order of insertion of their keys
cityStats(rel, role, jur, t) ==
    IF role # "admin" THEN <<>>
    ELSE LET keys == cityKeys(rel)
         IN  [n \in 1..Len(keys) |-> cityRow(rel, keys[n], t)]
             \o SelectSeq(mockCityRows(jur),
                          LAMBDA r : \A n \in 1..Len(keys) : keys[n] # r.city)

\* IMPACT-FIRST SORTING
\* priorityOrder[p]: undefined for a p that is no key of the object
priorityOrder(p) ==
    CASE p = "CRITICAL" -> Some(3)
      [] p = "HIGH" -> Some(2)
      [] p = "MEDIUM" -> Some(1)
      [] p = "LOW" -> Some(0)
      [] OTHER -> None

\* x - y of two numbers that may be undefined: NaN, which is None, if one is
Minus(x, y) == IF x = None \/ y = None THEN None ELSE Some(Get(x) - Get(y))

queueCompareOldestFirst(a, b) ==
    IF priorityOrder(b.priority) # priorityOrder(a.priority)
    THEN Minus(priorityOrder(b.priority), priorityOrder(a.priority))
    ELSE Some(a.timestamp - b.timestamp)

\* the comparator's result; None is NaN
queueCompare(a, b) ==
    IF priorityOrder(b.priority) # priorityOrder(a.priority)
    THEN Minus(priorityOrder(b.priority), priorityOrder(a.priority))
    ELSE Some(b.timestamp - a.timestamp)

\* Array.prototype.sort reads a comparator result of NaN as +0
SortOrder(v) == IF v = None THEN 0 ELSE Get(v)

matchesSearch(g, term) ==
    \/ Includes(ToLowerCase(g.description), ToLowerCase(term))
    \/ Includes(ToLowerCase(g.citizenName), ToLowerCase(term))

matchesTab(g, tab) ==
    \/ tab = "all"
    \/ tab = "pending" /\ (g.status = "PENDING" \/ g.status = "IN_PROGRESS")
    \/ tab = "resolved" /\ g.status = "RESOLVED"

filtered(rel, term, tab) == SelectSeq(rel, LAMBDA g : matchesSearch(g, term) /\ matchesTab(g, tab))

filteredGrievances(rel, term, tab) ==
    StableSort(filtered(rel, term, tab),
               [p \in Pairs(filtered(rel, term, tab)) |-> SortOrder(queueCompare(p[1], p[2]))])

----------------------------------------------------------------------------
(* Inputs drawn by the actions *)

Roles == {"citizen", "officer", "admin"}

\* the options picked in the two selectors ('' is the placeholder option)
StateInputs == {"", "Delhi"}
CityInputs == {"", "New Delhi", "North Delhi"}

\* text typed into the search box, the resolution note and the description
SearchInputs == {<<>>, <<"W", "i", "r", "e">>}
NoteInputs == {<<>>, <<" ", "\n">>, <<" ", "o", "k", " ">>}
DescInputs == {<<" ">>, <<"f", "i", "r", "e">>}

\* a field of a JSON object that the object does not have
Undefined == "undefined"

\* what analyzeGrievance resolves to: JSON.parse(response.text || '{}'), where
\* the schema asks for a string priority and an integer urgencyScore
AnalysisInputs ==
    {[priority |-> "LOW", urgencyScore |-> Some(20)],
     [priority |-> "CRITICAL", urgencyScore |-> Some(95)],
     [priority |-> "URGENT", urgencyScore |-> Some(150)],
     [priority |-> Undefined, urgencyScore |-> None]}

\* Math.floor(Math.random() * 9000 + 1000)
RandomIds == 1000..9999
IdInputs == {1026, 4711}

\* the clock's step in the application specification
AppClockStep == SlaDays * MsPerDay
AppClockTimes == {LoadTime + k * AppClockStep : k \in 0..MaxAppTicks}

----------------------------------------------------------------------------
(* App.tsx: the store *)

\* setGrievances(prev => [grievanceWithMeta, ...prev])
\* the history's timestamp is the new Date() of the call, t
addGrievanceKeepsPlace(gs, g, jur, t) ==
    <<[g EXCEPT !.history = Some(Created(t, "Grievance reported by citizen"))]>> \o gs

\* an addition that blanks the place instead of filling it in
addGrievanceDropsPlace(gs, g, jur, t) ==
    <<[g EXCEPT !.city = "", !.state = "",
                !.history = Some(Created(t, "Grievance reported by citizen"))]>> \o gs

addGrievance(gs, g, jur, t) ==
    <<[g EXCEPT !.city = IF jur.city # "" THEN jur.city ELSE "New Delhi",
                !.state = IF jur.state # "" THEN jur.state ELSE "Delhi",
                !.history = Some(Created(t, "Grievance reported by citizen"))]>> \o gs

\* a status update that forgets the test of the id
updateGrievanceStatusOfAll(gs, id, status) ==
    [i \in 1..Len(gs) |-> [gs[i] EXCEPT !.status = status]]

\* setGrievances(prev => prev.map(g => g.id === id ? { ...g, status } : g))
updateGrievanceStatus(gs, id, status) ==
    [i \in 1..Len(gs) |-> IF gs[i].id = id THEN [gs[i] EXCEPT !.status = status] ELSE gs[i]]

\* an assignment that also reopens the grievance
assignGrievanceReopens(gs, id, officer) ==
    [i \in 1..Len(gs) |->
        IF gs[i].id = id
        THEN [gs[i] EXCEPT !.assignedTo = IF officer = "" THEN None ELSE Some(officer),
                           !.status = "PENDING"]
        ELSE gs[i]]

\* an assignment that passes over the closed grievances
assignGrievanceOpenOnly(gs, id, officer) ==
    [i \in 1..Len(gs) |->
        IF gs[i].id = id /\ ~isClosed(gs[i])
        THEN [gs[i] EXCEPT !.assignedTo = IF officer = "" THEN None ELSE Some(officer)]
        ELSE gs[i]]

\* setGrievances(prev => prev.map(g => g.id === id ? { ...g, assignedTo: officer || undefined } : g))
assignGrievance(gs, id, officer) ==
    [i \in 1..Len(gs) |->
        IF gs[i].id = id
        THEN [gs[i] EXCEPT !.assignedTo = IF officer = "" THEN None ELSE Some(officer)]
        ELSE gs[i]]

\* a history that also filters on a city
myGrievancesOfNewDelhi(gs) ==
    SelectSeq(gs, LAMBDA g : g.citizenName = <<"U", "s", "e", "r", " ", "G", "u", "e", "s", "t">>
                             /\ g.city = "New Delhi")

myGrievances(gs) == SelectSeq(gs, LAMBDA g : g.citizenName = <<"U", "s", "e", "r", " ", "G", "u", "e", "s", "t">>)

----------------------------------------------------------------------------
(* What is on the screen *)

DashboardMounted == userRole \in {"officer", "admin"}
PortalMounted == userRole = "citizen"

\* the rows of the table, in display order
Queue ==
    filteredGrievances(relevantGrievances(grievances, userRole, jurisdiction),
                       searchTerm, activeTab)

\* Object.values(GrievanceStatus).slice(0, 3)
StatusButtons == SubSeq(GrievanceStatus, 1, 3)

\* the resolution modal is rendered
ModalShown == DashboardMounted /\ resolutionModalOpen /\ resolutionGrievanceId # None

\* the two useMemo caches of the dashboard for the given props, computed at time t
MemoAlertsUnsorted(gs, role, jur, t) ==
    IF role \in {"officer", "admin"}
    THEN activeAlerts(relevantGrievances(gs, role, jur), t)
    ELSE <<>>

MemoAlerts(gs, role, jur, t) ==
    IF role \in {"officer", "admin"}
    THEN sortedAlerts(relevantGrievances(gs, role, jur), t)
    ELSE <<>>

MemoStats(gs, role, jur, t) ==
    IF role \in {"officer", "admin"}
    THEN dashboardStats(relevantGrievances(gs, role, jur), t)
    ELSE dashboardStats(<<>>, t)

\* WaitlistForm as it mounts on the landing page, and a build without
\* SUPABASE_KEY, whose client is null
FreshWaitlistForm == [email |-> "", status |-> "idle", message |-> ""]

FreshWaitlist ==
    /\ waitlistForm = FreshWaitlistForm
    /\ supabase = None
    /\ waitlist = {}

\* the component state of a dashboard or a portal that has just been mounted
FreshDashboard ==
    /\ searchTerm' = <<>>
    /\ activeTab' = "all"
    /\ resolutionModalOpen' = FALSE
    /\ resolutionGrievanceId' = None
    /\ resolutionNote' = <<>>
    /\ officerModalOpen' = FALSE
    /\ selectedOfficer' = None
    /\ targetGrievanceId' = None
    /\ activeDropdown' = None

FreshPortal ==
    /\ description' = <<>>
    /\ isSubmitting' = FALSE
    /\ images' = <<>>
    /\ reads' = 0

Init ==
    /\ userRole = NoRole
    /\ selectedRoleForForm = NoRole
    /\ jurisdiction = NoJurisdiction
    /\ grievances = MOCK_GRIEVANCES
    /\ now = LoadTime
    /\ searchTerm = <<>>
    /\ activeTab = "all"
    /\ resolutionModalOpen = FALSE
    /\ resolutionGrievanceId = None
    /\ resolutionNote = <<>>
    /\ officerModalOpen = FALSE
    /\ selectedOfficer = None
    /\ targetGrievanceId = None
    /\ activeDropdown = None
    /\ alerts = <<>>
    /\ stats = dashboardStats(<<>>, LoadTime)
    /\ description = <<>>
    /\ isSubmitting = FALSE
    /\ images = <<>>
    /\ reads = 0
    /\ inflight = <<>>
    /\ failureAlerted = FALSE
    /\ FreshWaitlist

----------------------------------------------------------------------------
(* App.tsx: the landing page *)

handleRoleSelect(role) ==
    /\ userRole = NoRole
    /\ selectedRoleForForm = NoRole
    /\ selectedRoleForForm' = role
    /\ jurisdiction' = NoJurisdiction
    /\ UNCHANGED <<userRole, grievances, now, dashVars, memoVars, portalVars, callVars, waitlistVars>>

BackToRoles ==
    /\ userRole = NoRole
    /\ selectedRoleForForm # NoRole
    /\ selectedRoleForForm' = NoRole
    /\ UNCHANGED <<userRole, jurisdiction, grievances, now, dashVars, memoVars,
                   portalVars, callVars, waitlistVars>>

SelectState(s) ==
    /\ userRole = NoRole
    /\ selectedRoleForForm # NoRole
    /\ s \in {""} \cup Range(STATES)
    /\ jurisdiction' = [state |-> s, city |-> ""]
    /\ UNCHANGED <<userRole, selectedRoleForForm, grievances, now, dashVars, memoVars,
                   portalVars, callVars, waitlistVars>>

SelectCity(c) ==
    /\ userRole = NoRole
    /\ selectedRoleForForm # NoRole
    /\ jurisdiction.state # ""
    /\ c \in {""} \cup Range(CITIES[jurisdiction.state])
    /\ jurisdiction' = [jurisdiction EXCEPT !.city = c]
    /\ UNCHANGED <<userRole, selectedRoleForForm, grievances, now, dashVars, memoVars,
                   portalVars, callVars, waitlistVars>>

\* a Continue button that asks for the state alone, as handleLogin does
LoginDisabledWithoutState == jurisdiction.state = ""

\* disabled={!jurisdiction.state || (selectedRoleForForm !== 'admin' && !jurisdiction.city)}
LoginDisabled ==
    jurisdiction.state = "" \/ (selectedRoleForForm # "admin" /\ jurisdiction.city = "")

handleLogin ==
    /\ userRole = NoRole
    /\ selectedRoleForForm # NoRole
    /\ ~LoginDisabled
    /\ IF jurisdiction.state # ""
       THEN /\ userRole' = selectedRoleForForm
            /\ selectedRoleForForm' = NoRole
            /\ alerts' = MemoAlerts(grievances, selectedRoleForForm, jurisdiction, now)
            /\ stats' = MemoStats(grievances, selectedRoleForForm, jurisdiction, now)
       ELSE UNCHANGED <<userRole, selectedRoleForForm, memoVars>>
    /\ FreshDashboard
    /\ FreshPortal
    /\ waitlistForm' = FreshWaitlistForm
    /\ UNCHANGED <<jurisdiction, grievances, now, callVars, supabase, waitlist>>

\* Switch Role: the page under the header is unmounted; a call of
\* analyzeGrievance that is still running keeps running
SwitchRole ==
    /\ userRole # NoRole
    /\ userRole' = NoRole
    /\ jurisdiction' = NoJurisdiction
    /\ FreshDashboard
    /\ FreshPortal
    /\ alerts' = <<>>
    /\ stats' = dashboardStats(<<>>, now)
    /\ inflight' = [k \in 1..Len(inflight) |-> [inflight[k] EXCEPT !.mounted = FALSE]]
    /\ waitlistForm' = FreshWaitlistForm
    /\ UNCHANGED <<selectedRoleForForm, grievances, now, failureAlerted, supabase, waitlist>>

----------------------------------------------------------------------------
(* AuthorityDashboard.tsx: the handlers *)

\* the search box: onChange={(e) => setSearchTerm(e.target.value)}
SetSearchTerm(term) ==
    /\ DashboardMounted
    /\ term # searchTerm
    /\ searchTerm' = term
    /\ UNCHANGED <<appVars, grievances, now, activeTab, officerVars, resolutionModalOpen,
                   resolutionGrievanceId, resolutionNote, memoVars, portalVars, callVars, waitlistVars>>

\* onUpdateStatus(id, status): the store is replaced and the dashboard renders
\* again with the new grievances prop, which recomputes both caches
onUpdateStatus(id, status) ==
    /\ grievances' = updateGrievanceStatus(grievances, id, status)
    /\ alerts' = MemoAlerts(grievances', userRole, jurisdiction, now)
    /\ stats' = MemoStats(grievances', userRole, jurisdiction, now)

initiateResolution(id) ==
    /\ resolutionGrievanceId' = Some(id)
    /\ resolutionModalOpen' = TRUE
    /\ resolutionNote' = <<>>

\* a critical grievance is resolved through the modal only
needsResolutionNote(g, status) == status = "RESOLVED" /\ g.priority = "CRITICAL"

\* the status button `status` in row k of the table
ClickStatus(k, status) ==
    /\ DashboardMounted
    /\ k \in 1..Len(Queue)
    /\ status \in Range(StatusButtons)
    /\ IF needsResolutionNote(Queue[k], status)
       THEN /\ initiateResolution(Queue[k].id)
            /\ UNCHANGED <<grievances, memoVars>>
       ELSE /\ onUpdateStatus(Queue[k].id, status)
            /\ UNCHANGED <<resolutionModalOpen, resolutionGrievanceId, resolutionNote>>
    /\ UNCHANGED <<appVars, now, viewVars, portalVars, callVars, waitlistVars>>

\* the Officer Notes textarea
TypeNote(n) ==
    /\ ModalShown
    /\ n # resolutionNote
    /\ resolutionNote' = n
    /\ UNCHANGED <<appVars, grievances, now, viewVars, resolutionModalOpen,
                   resolutionGrievanceId, memoVars, portalVars, callVars, waitlistVars>>

\* Cancel: onClick={() => setResolutionModalOpen(false)}
CancelResolution ==
    /\ ModalShown
    /\ resolutionModalOpen' = FALSE
    /\ UNCHANGED <<appVars, grievances, now, viewVars, resolutionGrievanceId,
                   resolutionNote, memoVars, portalVars, callVars, waitlistVars>>

\* Mark Resolved: disabled={!resolutionNote.trim()}
ConfirmDisabled == Trim(resolutionNote) = <<>>

confirmResolution ==
    /\ ModalShown
    /\ ~ConfirmDisabled
    /\ IF resolutionGrievanceId # None
       THEN /\ onUpdateStatus(Get(resolutionGrievanceId), "RESOLVED")
            /\ resolutionModalOpen' = FALSE
            /\ resolutionGrievanceId' = None
       ELSE UNCHANGED <<grievances, memoVars, resolutionModalOpen, resolutionGrievanceId>>
    /\ UNCHANGED <<appVars, now, viewVars, resolutionNote, portalVars, callVars, waitlistVars>>

----------------------------------------------------------------------------
(* AuthorityDashboard.tsx: the assignment of an officer, in the expanded row
   of an admin's table *)

\* the keys of OFFICER_PROFILES
OFFICER_PROFILES ==
    {"Rajesh Kumar", "Sita Verma", "Amit Singh", "Vikram Malhotra", "Priya Patel",
     "Anjali Desai"}

\* the officers picked in the list
OfficerInputs == {"Rajesh Kumar"}

\* the Assign Officer button of row k: the officer list opens or closes
ToggleDropdown(k) ==
    /\ userRole = "admin"
    /\ k \in 1..Len(Queue)
    /\ activeDropdown' = IF activeDropdown = Some(Queue[k].id) THEN None ELSE Some(Queue[k].id)
    /\ UNCHANGED <<appVars, grievances, now, searchTerm, activeTab, officerModalOpen,
                   selectedOfficer, targetGrievanceId, resolutionModalOpen,
                   resolutionGrievanceId, resolutionNote, memoVars, portalVars, callVars, waitlistVars>>

\* handleOfficerClick(officerName, grievanceId); grievanceId is {} for null
handleOfficerClick(officerName, grievanceId) ==
    IF officerName \in OFFICER_PROFILES
    THEN /\ selectedOfficer' = Some(officerName)
         /\ targetGrievanceId' = grievanceId
         /\ officerModalOpen' = TRUE
         /\ activeDropdown' = None
    ELSE UNCHANGED officerVars

\* an officer of the open list of row k
PickOfficer(k, officerName) ==
    /\ userRole = "admin"
    /\ k \in 1..Len(Queue)
    /\ activeDropdown = Some(Queue[k].id)
    /\ handleOfficerClick(officerName, Some(Queue[k].id))
    /\ UNCHANGED <<appVars, grievances, now, searchTerm, activeTab, resolutionModalOpen,
                   resolutionGrievanceId, resolutionNote, memoVars, portalVars, callVars, waitlistVars>>

\* View Assigned Profile of row k: handleOfficerClick(g.assignedTo!)
ViewAssignedProfile(k) ==
    /\ userRole = "admin"
    /\ k \in 1..Len(Queue)
    /\ Queue[k].assignedTo # None
    /\ handleOfficerClick(Get(Queue[k].assignedTo), None)
    /\ UNCHANGED <<appVars, grievances, now, searchTerm, activeTab, resolutionModalOpen,
                   resolutionGrievanceId, resolutionNote, memoVars, portalVars, callVars, waitlistVars>>

\* the officer modal is rendered
OfficerModalShown == DashboardMounted /\ officerModalOpen /\ selectedOfficer # None

\* the X and the Close button of the officer modal
CloseOfficerModal ==
    /\ OfficerModalShown
    /\ officerModalOpen' = FALSE
    /\ UNCHANGED <<appVars, grievances, now, searchTerm, activeTab, selectedOfficer,
                   targetGrievanceId, activeDropdown, resolutionModalOpen,
                   resolutionGrievanceId, resolutionNote, memoVars, portalVars, callVars, waitlistVars>>

\* onAssignGrievance(id, officer): the store is replaced and the dashboard
\* renders again with the new grievances prop, which recomputes both caches
onAssignGrievance(id, officer) ==
    /\ grievances' = assignGrievance(grievances, id, officer)
    /\ alerts' = MemoAlerts(grievances', userRole, jurisdiction, now)
    /\ stats' = MemoStats(grievances', userRole, jurisdiction, now)

\* Confirm Assignment, rendered when targetGrievanceId is set
handleAssignConfirm ==
    /\ OfficerModalShown
    /\ targetGrievanceId # None
    /\ onAssignGrievance(Get(targetGrievanceId), Get(selectedOfficer))
    /\ officerModalOpen' = FALSE
    /\ selectedOfficer' = None
    /\ targetGrievanceId' = None
    /\ UNCHANGED <<appVars, now, searchTerm, activeTab, activeDropdown, resolutionModalOpen,
                   resolutionGrievanceId, resolutionNote, portalVars, callVars, waitlistVars>>

----------------------------------------------------------------------------
(* CitizenPortal.tsx: the photos *)

RemoveAt(s, k) == SubSeq(s, 1, k - 1) \o SubSeq(s, k + 1, Len(s))

\* reader.result: the data URL of a file
DataUrl == "data:image/png;base64"

\* handleFileChange with n files picked: a FileReader is started for each of
\* the first remainingSlots files
handleFileChange(n) ==
    /\ PortalMounted
    /\ LET remainingSlots == 3 - Len(images)
           filesToProcess == IF n < remainingSlots THEN n ELSE remainingSlots
       IN  IF remainingSlots <= 0
           THEN UNCHANGED reads
           ELSE /\ reads + filesToProcess <= MaxReads
                /\ reads' = reads + filesToProcess
    /\ UNCHANGED <<appVars, grievances, now, dashVars, memoVars, description, isSubmitting,
                   images, callVars, waitlistVars>>

\* reader.onloadend: setImages(prev => [...prev, reader.result])
onloadend ==
    /\ reads > 0
    /\ reads' = reads - 1
    /\ images' = Append(images, DataUrl)
    /\ UNCHANGED <<appVars, grievances, now, dashVars, memoVars, description, isSubmitting,
                   callVars, waitlistVars>>

\* setImages(prev => prev.filter((_, i) => i !== index))
removeImage(index) ==
    /\ PortalMounted
    /\ index \in 0..(Len(images) - 1)
    /\ images' = RemoveAt(images, index + 1)
    /\ UNCHANGED <<appVars, grievances, now, dashVars, memoVars, description, isSubmitting,
                   reads, callVars, waitlistVars>>

----------------------------------------------------------------------------
(* CitizenPortal.tsx: the submission *)

TypeDescription(d) ==
    /\ PortalMounted
    /\ d # description
    /\ description' = d
    /\ UNCHANGED <<appVars, grievances, now, dashVars, memoVars, isSubmitting, attachVars, callVars, waitlistVars>>

\* submit button: disabled={isSubmitting || !description}
SubmitDisabled == isSubmitting \/ description = <<>>

\* the citizen submissions the model has room for
Submitted == Len(grievances) - Len(MOCK_GRIEVANCES) + Len(inflight)

\* a submission that starts the call without entering the submitting state
handleSubmitNotPending ==
    /\ PortalMounted
    /\ ~SubmitDisabled
    /\ Submitted < MaxNew
    /\ IF Trim(description) = <<>>
       THEN UNCHANGED callVars
       ELSE /\ inflight' = Append(inflight, [description |-> description,
                                             images |-> images,
                                             jurisdiction |-> jurisdiction,
                                             mounted |-> TRUE])
            /\ UNCHANGED failureAlerted
    /\ UNCHANGED <<appVars, grievances, now, dashVars, memoVars, description, isSubmitting,
                   attachVars, waitlistVars>>

\* handleSubmit up to the await: the call of analyzeGrievance is started.  The
\* running handler keeps the description and the onGrievanceSubmit of this render,
\* whose addGrievance reads this render's jurisdiction.
handleSubmit ==
    /\ PortalMounted
    /\ ~SubmitDisabled
    /\ Submitted < MaxNew
    /\ IF Trim(description) = <<>>
       THEN UNCHANGED <<isSubmitting, callVars>>
       ELSE /\ isSubmitting' = TRUE
            /\ inflight' = Append(inflight, [description |-> description,
                                             images |-> images,
                                             jurisdiction |-> jurisdiction,
                                             mounted |-> TRUE])
            /\ UNCHANGED failureAlerted
    /\ UNCHANGED <<appVars, grievances, now, dashVars, memoVars, description, attachVars,
                   waitlistVars>>

\* the await returns: the grievance is built and handed to addGrievance, the
\* form is cleared, and the finally block ends the submitting state.  The state
\* setters of a portal that has been unmounted do nothing.
AnalysisResolved(k, analysis, id) ==
    /\ k \in 1..Len(inflight)
    /\ id \in RandomIds
    /\ LET call == inflight[k]
           newGrievance ==
               WithEvidence(
                   Grievance(id, <<"U", "s", "e", "r", " ", "G", "u", "e", "s", "t">>, call.description, analysis.priority,
                             "PENDING", now, "New Delhi", "Delhi", None,
                             analysis.urgencyScore),
                   call.images)
       IN  /\ grievances' = addGrievance(grievances, newGrievance, call.jurisdiction, now)
           /\ IF call.mounted
              THEN description' = <<>> /\ images' = <<>> /\ isSubmitting' = FALSE
              ELSE UNCHANGED <<description, images, isSubmitting>>
    /\ alerts' = MemoAlerts(grievances', userRole, jurisdiction, now)
    /\ stats' = MemoStats(grievances', userRole, jurisdiction, now)
    /\ inflight' = RemoveAt(inflight, k)
    /\ failureAlerted' = FALSE
    /\ UNCHANGED <<appVars, now, dashVars, reads, waitlistVars>>

AnalysisFailedClearsForm(k) ==
    /\ k \in 1..Len(inflight)
    /\ IF inflight[k].mounted
       THEN description' = <<>> /\ images' = <<>> /\ isSubmitting' = FALSE
       ELSE UNCHANGED <<description, images, isSubmitting>>
    /\ inflight' = RemoveAt(inflight, k)
    /\ failureAlerted' = TRUE
    /\ UNCHANGED <<appVars, grievances, now, dashVars, memoVars, reads, waitlistVars>>

\* the await throws: catch (alert) and finally
AnalysisFailed(k) ==
    /\ k \in 1..Len(inflight)
    /\ IF inflight[k].mounted
       THEN isSubmitting' = FALSE
       ELSE UNCHANGED isSubmitting
    /\ inflight' = RemoveAt(inflight, k)
    /\ failureAlerted' = TRUE
    /\ UNCHANGED <<appVars, grievances, now, dashVars, memoVars, description, attachVars,
                   waitlistVars>>

----------------------------------------------------------------------------
(* The wall clock.  Neither component renders when time passes. *)

Tick(step, times) ==
    /\ \E t \in times : t - step = now /\ now' = t
    /\ UNCHANGED <<appVars, grievances, dashVars, memoVars, portalVars, callVars, waitlistVars>>

----------------------------------------------------------------------------
(* The application: App.tsx with its two pages.  The photo handlers of the
   portal are steps of PortalSpec below; here no photo is attached. *)

Next ==
    \/ \E role \in Roles : handleRoleSelect(role)
    \/ BackToRoles
    \/ \E s \in StateInputs : SelectState(s)
    \/ \E c \in CityInputs : SelectCity(c)
    \/ handleLogin
    \/ SwitchRole
    \/ \E term \in SearchInputs : SetSearchTerm(term)
    \/ \E k \in 1..(Len(MOCK_GRIEVANCES) + MaxNew), status \in Range(GrievanceStatus) :
          ClickStatus(k, status)
    \/ \E n \in NoteInputs : TypeNote(n)
    \/ CancelResolution
    \/ confirmResolution
    \/ \E d \in DescInputs : TypeDescription(d)
    \/ handleSubmit
    \/ \E k \in 1..MaxNew, analysis \in AnalysisInputs, id \in IdInputs :
          AnalysisResolved(k, analysis, id)
    \/ \E k \in 1..MaxNew : AnalysisFailed(k)
    \/ Tick(AppClockStep, AppClockTimes)

Spec == Init /\ [][Next]_vars

\* The application without the buttons of the dashboard: the login form and
\* the citizen portal, whose submissions are the only changes of the grievances.
SubmissionNext ==
    \/ \E role \in Roles : handleRoleSelect(role)
    \/ BackToRoles
    \/ \E s \in StateInputs : SelectState(s)
    \/ \E c \in CityInputs : SelectCity(c)
    \/ handleLogin
    \/ SwitchRole
    \/ \E d \in DescInputs : TypeDescription(d)
    \/ handleSubmit
    \/ \E k \in 1..MaxNew, analysis \in AnalysisInputs, id \in IdInputs :
          AnalysisResolved(k, analysis, id)
    \/ \E k \in 1..MaxNew : AnalysisFailed(k)
    \/ Tick(AppClockStep, AppClockTimes)

SubmissionSpec == Init /\ [][SubmissionNext]_vars

\* The citizen portal of one session, with its photos: CitizenPortal.tsx as
\* App renders it for a citizen who has logged in.
PortalInit ==
    \E city \in Range(CITIES["Delhi"]) :
        /\ userRole = "citizen"
        /\ selectedRoleForForm = NoRole
        /\ jurisdiction = [state |-> "Delhi", city |-> city]
        /\ grievances = MOCK_GRIEVANCES
        /\ now = LoadTime
        /\ searchTerm = <<>>
        /\ activeTab = "all"
        /\ resolutionModalOpen = FALSE
        /\ resolutionGrievanceId = None
        /\ resolutionNote = <<>>
        /\ officerModalOpen = FALSE
        /\ selectedOfficer = None
        /\ targetGrievanceId = None
        /\ activeDropdown = None
        /\ alerts = <<>>
        /\ stats = dashboardStats(<<>>, LoadTime)
        /\ description = <<>>
        /\ isSubmitting = FALSE
        /\ images = <<>>
        /\ reads = 0
        /\ inflight = <<>>
        /\ failureAlerted = FALSE
        /\ FreshWaitlist

PortalNext ==
    \/ \E d \in DescInputs : TypeDescription(d)
    \/ \E n \in 1..MaxFiles : handleFileChange(n)
    \/ onloadend
    \/ \E index \in 0..3 : removeImage(index)
    \/ handleSubmit
    \/ \E k \in 1..MaxNew, analysis \in AnalysisInputs, id \in IdInputs :
          AnalysisResolved(k, analysis, id)
    \/ \E k \in 1..MaxNew : AnalysisFailed(k)
    \/ SwitchRole

PortalSpec == PortalInit /\ [][PortalNext]_vars

----------------------------------------------------------------------------
(* The dashboard on its own: AuthorityDashboard.tsx rendered with props drawn
   from bounded sets.  userRole defaults to 'admin' and jurisdiction is an
   optional prop, which the second App component of App.tsx leaves out; an
   absent jurisdiction reads as '' in both fields.  A grievance's timestamp is
   never later than the clock, and its city belongs to its state. *)

Places ==
    {[city |-> "Pune", state |-> "Maharashtra"],
     [city |-> "Nagpur", state |-> "Maharashtra"],
     [city |-> "New Delhi", state |-> "Delhi"]}

JurisdictionInputs ==
    {NoJurisdiction,
     [state |-> "Maharashtra", city |-> ""],
     [state |-> "Maharashtra", city |-> "Pune"],
     [state |-> "Delhi", city |-> "New Delhi"]}

\* priority with aiAnalysis?.urgencyScore
SeverityInputs ==
    {[priority |-> "CRITICAL", urgencyScore |-> None],
     [priority |-> "HIGH", urgencyScore |-> Some(80)],
     [priority |-> "MEDIUM", urgencyScore |-> Some(79)],
     [priority |-> "LOW", urgencyScore |-> Some(20)]}

\* the age of a grievance when the dashboard is mounted
AgeInputs == {1000 * 60 * 60, SlaDays * MsPerDay}

\* grievances that differ in their place
PlaceFeatures ==
    {[place |-> p, severity |-> [priority |-> "MEDIUM", urgencyScore |-> Some(60)],
      status |-> st, age |-> 1000 * 60 * 60] :
        p \in Places, st \in {"PENDING", "RESOLVED"}}

\* grievances of one city that differ in priority, score, status and age
TriageFeatures ==
    {[place |-> [city |-> "New Delhi", state |-> "Delhi"], severity |-> sv,
      status |-> st, age |-> a] :
        sv \in SeverityInputs, st \in Range(GrievanceStatus), a \in AgeInputs}

\* the list of grievances with the given features, the ids in sequence from
\* G-1024, every other one about a wire
GrievanceList(fs) ==
    [i \in DOMAIN fs |->
        Grievance(1023 + i, <<"R", "a", "v", "i">>,
                  IF i % 2 = 1 THEN <<"w", "i", "r", "e">> ELSE <<"r", "o", "a", "d">>,
                  fs[i].severity.priority, fs[i].status, LoadTime - fs[i].age,
                  fs[i].place.city, fs[i].place.state, None,
                  fs[i].severity.urgencyScore)]

\* the state of a dashboard that is mounted with the given props
DashboardMount(gs, role, jur) ==
    /\ userRole = role
    /\ selectedRoleForForm = NoRole
    /\ jurisdiction = jur
    /\ grievances = gs
    /\ now = LoadTime
    /\ searchTerm = <<>>
    /\ activeTab = "all"
    /\ resolutionModalOpen = FALSE
    /\ resolutionGrievanceId = None
    /\ resolutionNote = <<>>
    /\ officerModalOpen = FALSE
    /\ selectedOfficer = None
    /\ targetGrievanceId = None
    /\ activeDropdown = None
    /\ alerts = MemoAlerts(gs, role, jur, LoadTime)
    /\ stats = MemoStats(gs, role, jur, LoadTime)
    /\ description = <<>>
    /\ isSubmitting = FALSE
    /\ images = <<>>
    /\ reads = 0
    /\ inflight = <<>>
    /\ failureAlerted = FALSE
    /\ FreshWaitlist

\* up to MaxLen grievances: of several places under every role and
\* jurisdiction, or of one city in every priority, score, status and age
DashboardInit ==
    \E n \in 0..MaxLen :
        \/ \E fs \in [1..n -> PlaceFeatures], role \in {"officer", "admin"},
              jur \in JurisdictionInputs :
                DashboardMount(GrievanceList(fs), role, jur)
        \/ \E fs \in [1..n -> TriageFeatures] :
                DashboardMount(GrievanceList(fs), "admin",
                               [state |-> "Delhi", city |-> ""])

\* the clock of the dashboard specification steps by a day and by a millisecond
DashboardClockTimes ==
    {LoadTime + d * MsPerDay + ms : d \in 0..MaxDashDays, ms \in 0..MaxDashMs}

DashboardNext ==
    \/ \E term \in SearchInputs : SetSearchTerm(term)
    \/ Tick(1, DashboardClockTimes)
    \/ Tick(MsPerDay, DashboardClockTimes)

DashboardSpec == DashboardInit /\ [][DashboardNext]_vars

\* The same dashboard where the clock keeps running and the officer keeps
\* typing: a step that can be taken is taken in the end.
DashboardLiveSpec == DashboardSpec /\ WF_vars(DashboardNext)

----------------------------------------------------------------------------
(* The store under an admin's dashboard: updateGrievanceStatus and
   assignGrievance of App.tsx, called by the status buttons and the officer
   modal of the table, on grievances drawn from bounded sets.  Two grievances
   may carry one id, as they do after a submission whose random id is taken. *)

StoreFeatures ==
    {[id |-> i, priority |-> IF i = 1024 THEN "HIGH" ELSE "LOW", status |-> st] :
        i \in {1024, 1025}, st \in Range(GrievanceStatus)}

StoreList(fs) ==
    [i \in DOMAIN fs |->
        WithHistory(Grievance(fs[i].id, <<"R", "a", "v", "i">>, <<"w", "i", "r", "e">>,
                              fs[i].priority, fs[i].status, LoadTime - 3600000 * i,
                              "New Delhi", "Delhi", None, Some(50)),
                    Created(LoadTime - 3600000 * i, "Reported"))]

StoreInit ==
    \E n \in 0..MaxLen :
        \E fs \in [1..n -> StoreFeatures] :
            DashboardMount(StoreList(fs), "admin", [state |-> "Delhi", city |-> ""])

\* the arguments of a call of assignGrievance through the prop: the id of a
\* grievance or of none, an officer's name or the empty name
AssignIdInputs == {1024, 1025, 1026}
AssignNameInputs == {"", "Priya Patel"}

\* props.onUpdateStatus(id, status), called with any arguments
StatusCall(id, status) ==
    /\ DashboardMounted
    /\ onUpdateStatus(id, status)
    /\ UNCHANGED <<appVars, now, dashVars, portalVars, callVars, waitlistVars>>

\* props.onAssignGrievance(id, officer), called with any arguments
AssignCall(id, officer) ==
    /\ DashboardMounted
    /\ onAssignGrievance(id, officer)
    /\ UNCHANGED <<appVars, now, dashVars, portalVars, callVars, waitlistVars>>

StoreNext ==
    \/ \E id \in AssignIdInputs, officer \in AssignNameInputs : AssignCall(id, officer)
    \/ \E id \in AssignIdInputs, status \in Range(GrievanceStatus) : StatusCall(id, status)

StoreSpec == StoreInit /\ [][StoreNext]_vars

(* The officer modal of an admin's table, over grievances of every status:
   the dropdown, the pick of an officer, the profile of the assigned one, the
   confirmation, and the call of the store's function it ends in. *)

AssignInit ==
    \E n \in 0..MaxLen :
        \E st \in [1..n -> Range(GrievanceStatus)] :
            DashboardMount(StoreList([i \in 1..n |->
                                         [id |-> 1023 + i, priority |-> "HIGH", status |-> st[i]]]),
                           "admin", [state |-> "Delhi", city |-> ""])

AssignNext ==
    \/ \E k \in 1..MaxLen : ToggleDropdown(k)
    \/ \E k \in 1..MaxLen, officerName \in OfficerInputs : PickOfficer(k, officerName)
    \/ \E k \in 1..MaxLen : ViewAssignedProfile(k)
    \/ CloseOfficerModal
    \/ handleAssignConfirm
    \/ \E id \in AssignIdInputs, officer \in AssignNameInputs : AssignCall(id, officer)

AssignSpec == AssignInit /\ [][AssignNext]_vars

----------------------------------------------------------------------------
(* The landing page with every state and city of its two selectors, and the
   pages it leads to: the search box of a dashboard, and a portal whose
   submission may settle after the citizen has left it. *)

AllCities == UNION {Range(CITIES[s]) : s \in Range(STATES)}

LoginNext ==
    \/ \E role \in Roles : handleRoleSelect(role)
    \/ BackToRoles
    \/ \E s \in {""} \cup Range(STATES) : SelectState(s)
    \/ \E c \in {""} \cup AllCities : SelectCity(c)
    \/ handleLogin
    \/ SwitchRole
    \/ \E term \in SearchInputs : SetSearchTerm(term)
    \/ \E d \in DescInputs : TypeDescription(d)
    \/ handleSubmit
    \/ \E k \in 1..MaxNew, analysis \in {a \in AnalysisInputs : a.priority = "LOW"} :
          AnalysisResolved(k, analysis, 4711)
    \/ \E k \in 1..MaxNew : AnalysisFailed(k)

LoginSpec == Init /\ [][LoginNext]_vars

----------------------------------------------------------------------------
(* supabaseService.ts and the WaitlistForm of the landing page *)

\* what the insert into 'waitlist' comes to: it throws, or it returns an error
\* with a Postgres code, or it returns no error
Inserted == [thrown |-> FALSE, error |-> None]
InsertError(code) == [thrown |-> FALSE, error |-> Some(code)]
InsertThrown == [thrown |-> TRUE, error |-> None]
InsertOutcomes == {Inserted, InsertError("23505"), InsertError("42501"), InsertThrown}

AlreadyOnWaitlist == "You are already on the waitlist!"
UnableToJoin == "Unable to join at the moment. Please try again."
SomethingWentWrong == "Something went wrong. Please check your connection."
WelcomeAboard == "Welcome aboard! You've been added to the pilot waitlist."
SimulationRegistered == "Simulation: Email registered successfully!"

\* a signup that has one message for every failure
addToWaitlistOneFailure(client, outcome) ==
    IF client = None
    THEN [success |-> TRUE, message |-> SimulationRegistered]
    ELSE IF outcome.thrown \/ outcome.error # None
         THEN [success |-> FALSE, message |-> UnableToJoin]
         ELSE [success |-> TRUE, message |-> WelcomeAboard]

\* addToWaitlist(email) with the client of the build and the outcome of the insert
addToWaitlist(client, outcome) ==
    IF client = None
    THEN [success |-> TRUE, message |-> SimulationRegistered]
    ELSE IF outcome.thrown
         THEN [success |-> FALSE, message |-> SomethingWentWrong]
         ELSE IF outcome.error # None
              THEN IF Get(outcome.error) = "23505"
                   THEN [success |-> FALSE, message |-> AlreadyOnWaitlist]
                   ELSE [success |-> FALSE, message |-> UnableToJoin]
              ELSE [success |-> TRUE, message |-> WelcomeAboard]

EmailInputs == {"", "a@gov.in", "b@gov.in", "c@nic.in"}

WaitlistMounted == userRole = NoRole

WaitlistDisabled == waitlistForm.status \in {"loading", "success"}

\* onChange of the input
SetEmail(e) ==
    /\ WaitlistMounted
    /\ ~WaitlistDisabled
    /\ waitlistForm' = [email |-> e, status |-> "idle", message |-> ""]
    /\ UNCHANGED <<appVars, grievances, now, dashVars, memoVars, portalVars, callVars,
                   supabase, waitlist>>

\* WaitlistForm's handleSubmit up to the await
JoinPilot ==
    /\ WaitlistMounted
    /\ ~WaitlistDisabled
    /\ IF waitlistForm.email = ""
       THEN UNCHANGED waitlistForm
       ELSE waitlistForm' = [waitlistForm EXCEPT !.status = "loading"]
    /\ UNCHANGED <<appVars, grievances, now, dashVars, memoVars, portalVars, callVars,
                   supabase, waitlist>>

\* the await returns.  The unique constraint refuses an email the table has,
\* and an insert without error adds the row.
JoinSettled(outcome) ==
    /\ WaitlistMounted
    /\ waitlistForm.status = "loading"
    /\ supabase # None =>
           /\ outcome = InsertError("23505") => waitlistForm.email \in waitlist
           /\ outcome = Inserted => waitlistForm.email \notin waitlist
    /\ LET result == addToWaitlist(supabase, outcome)
       IN  waitlistForm' = [email |-> IF result.success THEN "" ELSE waitlistForm.email,
                            status |-> IF result.success THEN "success" ELSE "error",
                            message |-> result.message]
    /\ waitlist' = IF supabase # None /\ outcome = Inserted
                   THEN waitlist \cup {waitlistForm.email}
                   ELSE waitlist
    /\ UNCHANGED <<appVars, grievances, now, dashVars, memoVars, portalVars, callVars,
                   supabase>>

\* the landing page of a build with or without SUPABASE_KEY, over a table
\* that holds some of the emails
WaitlistInit ==
    /\ userRole = NoRole
    /\ selectedRoleForForm = NoRole
    /\ jurisdiction = NoJurisdiction
    /\ grievances = MOCK_GRIEVANCES
    /\ now = LoadTime
    /\ searchTerm = <<>>
    /\ activeTab = "all"
    /\ resolutionModalOpen = FALSE
    /\ resolutionGrievanceId = None
    /\ resolutionNote = <<>>
    /\ officerModalOpen = FALSE
    /\ selectedOfficer = None
    /\ targetGrievanceId = None
    /\ activeDropdown = None
    /\ alerts = <<>>
    /\ stats = dashboardStats(<<>>, LoadTime)
    /\ description = <<>>
    /\ isSubmitting = FALSE
    /\ images = <<>>
    /\ reads = 0
    /\ inflight = <<>>
    /\ failureAlerted = FALSE
    /\ waitlistForm = FreshWaitlistForm
    /\ supabase \in {None, Some("client")}
    /\ waitlist \in SUBSET (EmailInputs \ {""})

WaitlistNext ==
    \/ \E e \in EmailInputs : SetEmail(e)
    \/ JoinPilot
    \/ \E outcome \in InsertOutcomes : JoinSettled(outcome)

WaitlistSpec == WaitlistInit /\ [][WaitlistNext]_vars

----------------------------------------------------------------------------
(* Properties *)

\* the j-th grievance counted from the oldest: addGrievance prepends, so the
\* count from the end names the same grievance before and after every step
FromEnd(gs, j) == gs[Len(gs) + 1 - j]

\* the grievances the mounted dashboard works on, and a scan of them at the
\* present time
Visible == relevantGrievances(grievances, userRole, jurisdiction)
Scan == sortedAlerts(Visible, now)
Rollup == cityStats(Visible, userRole, jurisdiction, now)

\* the terms of the alert rules: ceil((now - timestamp) / 1 day), more than
\* seven days old, and CRITICAL priority or an urgency score of 80 and more
ageDays(g) == Ceil(now - g.timestamp, MsPerDay)
Breached(g) == ageDays(g) > 7
Urgent(g) == g.priority = "CRITICAL" \/ (g.urgencyScore # None /\ Get(g.urgencyScore) >= 80)
Active(g) == g.status \notin {"RESOLVED", "REJECTED"}

\* C1: a step that asks for a CRITICAL grievance to be RESOLVED without a note
\* (the prompt opens) or that cancels the prompt leaves the grievances as they
\* are, and a CRITICAL grievance becomes RESOLVED only in a step taken while
\* the prompt for that grievance holds a non-empty note.
C1_CriticalResolutionGate ==
    [][/\ (~resolutionModalOpen /\ resolutionModalOpen') => grievances' = grievances
       /\ (resolutionModalOpen /\ ~resolutionModalOpen' /\ resolutionGrievanceId' # None)
             => grievances' = grievances
       /\ \A j \in 1..Len(grievances) :
             (/\ FromEnd(grievances, j).priority = "CRITICAL"
              /\ FromEnd(grievances, j).status # "RESOLVED"
              /\ FromEnd(grievances', j).status = "RESOLVED")
             => /\ ModalShown
                /\ resolutionGrievanceId = Some(FromEnd(grievances, j).id)
                /\ Trim(resolutionNote) # <<>>]_vars

\* The gate of the buttons themselves: the prompt's opening and its cancelling
\* change no grievance, and the RESOLVED button of a CRITICAL row changes none.
ResolutionPromptKeepsGrievances ==
    [][/\ (~resolutionModalOpen /\ resolutionModalOpen') => grievances' = grievances
       /\ (resolutionModalOpen /\ ~resolutionModalOpen' /\ resolutionGrievanceId' # None)
             => grievances' = grievances
       /\ (resolutionModalOpen /\ resolutionGrievanceId # None
           /\ resolutionGrievanceId' = None /\ userRole' = userRole)
             => Trim(resolutionNote) # <<>>]_vars

\* C2: every grievance with priority CRITICAL and status RESOLVED carries a
\* non-empty resolutionNote.
C2_ResolvedCriticalHasNote ==
    \A i \in 1..Len(grievances) :
        (grievances[i].priority = "CRITICAL" /\ grievances[i].status = "RESOLVED")
        => /\ grievances[i].resolutionNote # None
           /\ Trim(Get(grievances[i].resolutionNote)) # <<>>

\* C3: RESOLVED and REJECTED are terminal: no step changes the status of a
\* grievance that is RESOLVED or REJECTED.
C3_TerminalStatus ==
    [][\A j \in 1..Len(grievances) :
          FromEnd(grievances, j).status \in {"RESOLVED", "REJECTED"}
          => FromEnd(grievances', j).status = FromEnd(grievances, j).status]_vars

\* a step of the application that moves grievance id, not yet REJECTED, to REJECTED
RejectStep(id) ==
    /\ Next
    /\ \E j \in 1..Len(grievances) :
          /\ FromEnd(grievances, j).id = id
          /\ FromEnd(grievances, j).status # "REJECTED"
          /\ FromEnd(grievances', j).status = "REJECTED"

\* C4: for every grievance in the officer's or admin's table that is PENDING or
\* IN_PROGRESS there is an action that moves it to REJECTED.
C4_RejectTransitionExists ==
    DashboardMounted =>
        \A k \in 1..Len(Queue) :
            Queue[k].status \in {"PENDING", "IN_PROGRESS"} => ENABLED RejectStep(Queue[k].id)

\* No grievance is ever REJECTED: the table offers no button for it.
NeverRejected == \A i \in 1..Len(grievances) : grievances[i].status # "REJECTED"

\* C5: for an officer with jurisdiction city c a grievance is in the visible
\* set iff its city is c; for an admin with jurisdiction state s it is visible
\* iff its state is s, whatever its city and whatever city the admin selected.
C5_JurisdictionFilter ==
    DashboardMounted =>
        \A i \in 1..Len(grievances) :
            LET g == grievances[i]
                shown == \E k \in 1..Len(Visible) : Visible[k] = g
            IN  /\ (userRole = "officer" /\ jurisdiction.city # "")
                      => (shown <=> g.city = jurisdiction.city)
                /\ (userRole = "admin" /\ jurisdiction.state # "")
                      => (shown <=> g.state = jurisdiction.state)

\* an admin of Maharashtra who selected Pune sees a Nagpur grievance and does
\* not see a Delhi grievance
C5_AdminSeesWholeState ==
    /\ userRole = "admin"
    /\ jurisdiction = [state |-> "Maharashtra", city |-> "Pune"]
    /\ \E i, j \in 1..Len(grievances) :
          /\ grievances[i].city = "Nagpur"
          /\ \E k \in 1..Len(Visible) : Visible[k] = grievances[i]
          /\ grievances[j].state = "Delhi"
          /\ \A k \in 1..Len(Visible) : Visible[k] # grievances[j]

\* C6: for an officer with an empty jurisdiction city and for an admin with an
\* empty jurisdiction state the jurisdiction filter returns no grievances.
C6_EmptyJurisdictionShowsNothing ==
    (\/ userRole = "officer" /\ jurisdiction.city = ""
     \/ userRole = "admin" /\ jurisdiction.state = "")
    => Visible = <<>>

\* C7: the queue is a permutation of the filtered grievances in which the
\* priority rank does not increase, the timestamp does not increase among equal
\* priorities, and grievances equal in both keep their input order.
C7_QueueOrdering ==
    DashboardMounted =>
        LET input == filtered(Visible, searchTerm, activeTab)
            output == Queue
            n == Len(input)
            rank(g) == CASE g.priority = "CRITICAL" -> 3
                         [] g.priority = "HIGH" -> 2
                         [] g.priority = "MEDIUM" -> 1
                         [] g.priority = "LOW" -> 0
        IN  /\ Len(output) = n
            /\ \E p \in [1..n -> 1..n] :
                  /\ \A i, j \in 1..n : i # j => p[i] # p[j]
                  /\ \A i \in 1..n : output[i] = input[p[i]]
                  /\ \A i, j \in 1..n :
                        i < j =>
                          /\ rank(output[i]) >= rank(output[j])
                          /\ rank(output[i]) = rank(output[j])
                                => output[i].timestamp >= output[j].timestamp
                          /\ (/\ rank(output[i]) = rank(output[j])
                              /\ output[i].timestamp = output[j].timestamp)
                                => p[i] < p[j]

\* two grievances of one priority are shown newest first, against their input order
C7_NewestFirstWithinPriority ==
    /\ DashboardMounted
    /\ Len(Queue) = 2
    /\ Queue # filtered(Visible, searchTerm, activeTab)
    /\ Queue[1].priority = Queue[2].priority
    /\ Queue[1].timestamp > Queue[2].timestamp

\* C8: the scan holds exactly one alert for a grievance iff the grievance is
\* neither RESOLVED nor REJECTED and is more than 7 days old, CRITICAL or of
\* urgency score 80 and more; it holds none otherwise, and never two alerts of
\* one grievance id.
C8_AlertEmission ==
    DashboardMounted =>
        /\ \A i \in 1..Len(Visible) :
              LET g == Visible[i]
                  emitted == {k \in 1..Len(Scan) : Scan[k].id = g.id}
              IN  Cardinality(emitted) =
                      IF Active(g) /\ (Breached(g) \/ Urgent(g)) THEN 1 ELSE 0
        /\ \A k1, k2 \in 1..Len(Scan) : Scan[k1].id = Scan[k2].id => k1 = k2

\* Record by record the scan is as C8 says: the alerts are, in some order, the
\* alerts of the grievances that are active and breached or urgent.
AlertPerRecord ==
    DashboardMounted =>
        LET due == SelectSeq(Visible, LAMBDA g : Active(g) /\ (Breached(g) \/ Urgent(g)))
        IN  /\ Len(Scan) = Len(due)
            /\ \E p \in [1..Len(due) -> 1..Len(due)] :
                  /\ \A i, j \in 1..Len(due) : i # j => p[i] # p[j]
                  /\ \A i \in 1..Len(due) : Scan[i].grievance = due[p[i]]

\* C9: an alert is of type BOTH when its grievance is urgent and breached, of
\* type CRITICAL with the message 'High Urgency / Critical Priority detected'
\* and no daysOverdue when it is only urgent, and of type SLA with
\* daysOverdue = ageDays - 7 when it is only breached.
C9_AlertClassification ==
    DashboardMounted =>
        \A k \in 1..Len(Scan) :
            LET a == Scan[k]
                g == a.grievance
            IN  /\ (Urgent(g) /\ Breached(g)) => a.type = "BOTH"
                /\ (Urgent(g) /\ ~Breached(g))
                      => /\ a.type = "CRITICAL"
                         /\ a.message = <<"High Urgency / Critical Priority detected">>
                         /\ a.daysOverdue = None
                /\ (~Urgent(g) /\ Breached(g))
                      => /\ a.type = "SLA"
                         /\ a.daysOverdue = Some(ageDays(g) - 7)

\* the scan holds an alert of type BOTH and an alert of type SLA
C9_BothAndSlaAlerts ==
    /\ DashboardMounted
    /\ \E k1, k2 \in 1..Len(Scan) :
          /\ Scan[k1].type = "BOTH"
          /\ Scan[k2].type = "SLA"
          /\ Scan[k2].daysOverdue # None

\* C10: an active grievance that is not urgent and whose timestamp is exactly 7
\* days before now has no alert; one whose timestamp is exactly 8 days before
\* now has an SLA alert with daysOverdue = 1.
C10_SlaBoundary ==
    DashboardMounted =>
        \A i \in 1..Len(Visible) :
            LET g == Visible[i]
                mine == {k \in 1..Len(Scan) : Scan[k].grievance = g}
            IN  (Active(g) /\ ~Urgent(g)) =>
                  /\ now - g.timestamp = 7 * MsPerDay => mine = {}
                  /\ now - g.timestamp = 8 * MsPerDay
                        => /\ mine # {}
                           /\ \A k \in mine : /\ Scan[k].type = "SLA"
                                              /\ Scan[k].daysOverdue = Some(1)

\* a grievance filed exactly 8 days ago is alerted, beside one filed later
\* that is not
C10_EightDaysOld ==
    /\ DashboardMounted
    /\ \E i, j \in 1..Len(Visible) :
          /\ Active(Visible[i]) /\ ~Urgent(Visible[i])
          /\ now - Visible[i].timestamp = 8 * MsPerDay
          /\ \E k \in 1..Len(Scan) : Scan[k].grievance = Visible[i]
          /\ Active(Visible[j]) /\ ~Urgent(Visible[j])
          /\ \A k \in 1..Len(Scan) : Scan[k].grievance # Visible[j]

\* C11: the alert list is in order of severity rank, BOTH (3) before CRITICAL
\* (2) before SLA (1), and two alerts of one rank stand in the order of their
\* grievances in the grievances of the jurisdiction.  It is stated of the list
\* on the screen and of a scan at the present time.
C11_AlertOrdering ==
    LET rank(a) == CASE a.type = "BOTH" -> 3 [] a.type = "CRITICAL" -> 2 [] a.type = "SLA" -> 1
        place(a) == CHOOSE i \in 1..Len(Visible) : Visible[i] = a.grievance
        ordered(as) ==
            \A i, j \in 1..Len(as) :
                i < j => /\ rank(as[i]) >= rank(as[j])
                         /\ rank(as[i]) = rank(as[j]) => place(as[i]) < place(as[j])
    IN  DashboardMounted => ordered(alerts) /\ ordered(Scan)

\* the sort of a scan has moved the alert of a later grievance above the
\* alert of an earlier one
C11_SevereAlertMovedUp ==
    /\ DashboardMounted
    /\ Len(Scan) = 2
    /\ Scan[1].type = "BOTH"
    /\ Scan[2].type = "SLA"
    /\ \E i, j \in 1..Len(Visible) :
          i < j /\ Visible[j] = Scan[1].grievance /\ Visible[i] = Scan[2].grievance

\* C12: a grievance that is SLA-breached at the time of a state is SLA-breached
\* at the time of the next state, which is never earlier, if its status is then
\* still neither RESOLVED nor REJECTED: no step of the clock clears a breach.
C12_SlaMonotone ==
    [][\A j \in 1..Len(grievances) :
          (/\ isSlaBreach(FromEnd(grievances, j), now)
           /\ now' >= now
           /\ Active(FromEnd(grievances', j)))
          => isSlaBreach(FromEnd(grievances', j), now')]_vars

\* a day after its breach an open grievance is still breached
C12_BreachedADayLater ==
    /\ now = LoadTime + MsPerDay + 1
    /\ \E j \in 1..Len(grievances) :
          /\ Active(grievances[j])
          /\ isSlaBreach(grievances[j], now - MsPerDay)
          /\ isSlaBreach(grievances[j], now)

\* C13: when a grievance of the jurisdiction that is neither RESOLVED nor
\* REJECTED is more than seven days old, an SLA or BOTH alert for it is in the
\* alert list on the screen in the end, though no grievance has changed.
C13_BreachAlertAppears ==
    \A j \in 1..MaxLen :
        (/\ DashboardMounted
         /\ j <= Len(Visible)
         /\ Active(Visible[j])
         /\ Breached(Visible[j]))
        ~> (/\ j <= Len(Visible)
            /\ \E i \in 1..Len(alerts) :
                  /\ alerts[i].id = Visible[j].id
                  /\ alerts[i].type \in {"SLA", "BOTH"})

CityRollupCountsRejected ==
    LET of(c) == SelectSeq(Visible, LAMBDA g : g.city = c)
    IN  userRole = "admin" =>
            \A k \in 1..Len(Visible) :
                LET c == Visible[k].city
                IN  /\ Cardinality({n \in 1..Len(Rollup) : Rollup[n].city = c}) = 1
                    /\ \A n \in 1..Len(Rollup) :
                          Rollup[n].city = c =>
                              /\ Rollup[n].active = Len(SelectSeq(of(c), LAMBDA g : g.status # "RESOLVED"))
                              /\ Rollup[n].critical = Len(SelectSeq(of(c), LAMBDA g : g.priority = "CRITICAL"))
                              /\ Rollup[n].escalations =
                                    Len(SelectSeq(of(c), LAMBDA g : /\ g.status # "RESOLVED"
                                                                    /\ now - g.timestamp > 7 * MsPerDay))

\* C16: a call of the classification that returns adds one grievance and no
\* other step adds or changes one.  The grievance is put in front of the others,
\* which stay as they are; its status is PENDING, its history the one entry
\* Created / 'Grievance reported by citizen' of the present time, and its city
\* and state those of the jurisdiction the citizen submitted under, or
\* 'New Delhi' and 'Delhi' where that field is empty.
C16_GrievanceCreation ==
    [][/\ (Len(inflight') < Len(inflight) /\ ~failureAlerted')
            => Len(grievances') = Len(grievances) + 1
       /\ grievances' # grievances =>
            \E k \in 1..Len(inflight) :
                LET jur == inflight[k].jurisdiction
                    g == Head(grievances')
                IN  /\ inflight' = RemoveAt(inflight, k)
                    /\ Len(grievances') = Len(grievances) + 1
                    /\ Tail(grievances') = grievances
                    /\ g.status = "PENDING"
                    /\ g.timestamp = now
                    /\ g.description = inflight[k].description
                    /\ g.history = Some(<<[timestamp |-> now, action |-> "Created",
                                           details |-> "Grievance reported by citizen"]>>)
                    /\ g.city = IF jur.city = "" THEN "New Delhi" ELSE jur.city
                    /\ g.state = IF jur.state = "" THEN "Delhi" ELSE jur.state]_vars

\* a citizen of North Delhi has reported a grievance
C16_CreatedInNorthDelhi ==
    /\ Len(grievances) = Len(MOCK_GRIEVANCES) + 1
    /\ Head(grievances).city = "North Delhi"
    /\ Head(grievances).state = "Delhi"
    /\ Head(grievances).status = "PENDING"
    /\ Head(grievances).history # None

\* C17: a step in which the classification throws leaves the grievances, the
\* description and the photos as they are and ends the submitting state of the
\* form it was started from, so that the same input can be submitted again;
\* and the step in which the classification of a submission made after a
\* failure returns adds one grievance, with the description and the photos of
\* that submission, and changes no other.
C17_CreationFailureIsolation ==
    [][/\ (Len(inflight') < Len(inflight) /\ failureAlerted')
            => /\ grievances' = grievances
               /\ description' = description
               /\ images' = images
               /\ \E k \in 1..Len(inflight) :
                     /\ inflight' = RemoveAt(inflight, k)
                     /\ inflight[k].mounted => ~isSubmitting'
       /\ (failureAlerted /\ Len(inflight') < Len(inflight) /\ ~failureAlerted')
            => \E k \in 1..Len(inflight) :
                  /\ inflight' = RemoveAt(inflight, k)
                  /\ Len(grievances') = Len(grievances) + 1
                  /\ Tail(grievances') = grievances
                  /\ Head(grievances').description = inflight[k].description
                  /\ Head(grievances').evidenceUrls = inflight[k].images]_vars

\* the classification has thrown: no grievance has been added, and the form
\* holds the description and the photo and can be submitted again
C17_InputKeptAfterFailure ==
    /\ PortalMounted
    /\ failureAlerted
    /\ inflight = <<>>
    /\ grievances = MOCK_GRIEVANCES
    /\ description = <<"f", "i", "r", "e">>
    /\ images = <<DataUrl>>
    /\ ~SubmitDisabled

\* C18: no grievance is made of a malformed answer of the classification:
\* every grievance has one of the four priorities and an urgency score
\* between 0 and 100.
C18_MalformedAnalysisRejected ==
    \A i \in 1..Len(grievances) :
        /\ grievances[i].priority \in {"CRITICAL", "HIGH", "MEDIUM", "LOW"}
        /\ grievances[i].urgencyScore # None
        /\ Get(grievances[i].urgencyScore) \in 0..100

\* C19: no two grievances of the working set have the same id.
C19_UniqueIds ==
    \A i, j \in 1..Len(grievances) :
        grievances[i].id = grievances[j].id => i = j

\* C20: a step that changes the status or the assignment of a grievance adds
\* one entry at the end of its history, and no step removes or alters an entry
\* that a history holds.
C20_AuditTrail ==
    [][\A j \in 1..Len(grievances) :
          LET old == FromEnd(grievances, j)
              new == FromEnd(grievances', j)
              kept == /\ new.history # None
                      /\ Len(Get(new.history)) >= Len(Get(old.history))
                      /\ SubSeq(Get(new.history), 1, Len(Get(old.history))) = Get(old.history)
          IN  /\ old.history # None => kept
              /\ (new.status # old.status \/ new.assignedTo # old.assignedTo)
                    => /\ old.history # None
                       /\ kept
                       /\ Len(Get(new.history)) = Len(Get(old.history)) + 1]_vars

\* the grievances of this id carry the officer after the assignment, or no
\* officer when the name is empty, whatever their status, which they keep
AssignedTo(before, after, id, officer) ==
    /\ Len(after) = Len(before)
    /\ \A i \in 1..Len(before) :
           before[i].id = id
               => /\ after[i].assignedTo = (IF officer = "" THEN None ELSE Some(officer))
                  /\ after[i].status = before[i].status

\* the step of handleAssignConfirm: the modal closes and forgets its officer
AssignConfirmed ==
    /\ OfficerModalShown
    /\ targetGrievanceId # None
    /\ ~officerModalOpen'
    /\ selectedOfficer' = None

\* C21: an assignment sets assignedTo of the grievance it names, in any status
\* (RESOLVED and REJECTED included), and an empty officer name leaves
\* assignedTo absent: so does assignGrievance for every id and name, and so
\* does the confirmation of the officer modal for its target and officer.
C21_AssignInAnyStatus ==
    /\ [](\A id \in AssignIdInputs, officer \in AssignNameInputs \cup OfficerInputs :
              AssignedTo(grievances, assignGrievance(grievances, id, officer), id, officer))
    /\ [][AssignConfirmed
              => AssignedTo(grievances, grievances', Get(targetGrievanceId), Get(selectedOfficer))]_vars

\* a closed grievance was assigned by the modal, and another by a call
C21_ClosedGrievanceAssigned ==
    \E i, j \in 1..Len(grievances) :
        /\ grievances[i].status = "REJECTED"
        /\ grievances[i].assignedTo = Some("Rajesh Kumar")
        /\ grievances[j].status = "RESOLVED"
        /\ grievances[j].assignedTo = Some("Priya Patel")

\* the fields a status update or an assignment leaves alone
SameIdentity(old, new) ==
    /\ new.id = old.id
    /\ new.priority = old.priority
    /\ new.timestamp = old.timestamp
    /\ new.description = old.description
    /\ new.city = old.city
    /\ new.state = old.state

\* C22: a status update or an assignment on grievance id X leaves X's id,
\* priority, timestamp, description, city and state unchanged and every other
\* grievance entirely unchanged: in every step of the store the list keeps
\* its length, every grievance keeps these fields (so its priority never
\* changes), and the grievances that changed at all carry one id.
C22_UpdateFrame ==
    [][/\ Len(grievances') = Len(grievances)
       /\ \A i \in 1..Len(grievances) : SameIdentity(grievances[i], grievances'[i])
       /\ \A i, j \in 1..Len(grievances) :
              (grievances'[i] # grievances[i] /\ grievances'[j] # grievances[j])
                  => grievances[i].id = grievances[j].id]_vars

\* grievance 1024 was assigned and rejected next to an untouched grievance 1025
C22_OneUpdatedOneUntouched ==
    \E i, j \in 1..Len(grievances) :
        /\ grievances[i].id = 1024
        /\ grievances[i].assignedTo = Some("Priya Patel")
        /\ grievances[i].status = "REJECTED"
        /\ grievances[j].id = 1025
        /\ grievances[j].assignedTo = None
        /\ grievances[j].status = "PENDING"

\* C23: the portal never holds more than 3 evidence images, after any
\* interleaving of selections, completions of reads and removals, and no
\* submitted grievance carries more than 3 evidenceUrls.
C23_AtMostThreeImages ==
    /\ Len(images) <= 3
    /\ \A i \in 1..Len(grievances) : Len(grievances[i].evidenceUrls) <= 3

\* C24: every grievance has a non-empty city and a non-empty state, in every
\* reachable state.
C24_PlaceNeverEmpty ==
    \A i \in 1..Len(grievances) : grievances[i].city # "" /\ grievances[i].state # ""

\* a grievance was submitted and the citizen has logged out since
C24_SubmittedThenLoggedOut ==
    /\ Len(grievances) > Len(MOCK_GRIEVANCES)
    /\ jurisdiction = NoJurisdiction
    /\ grievances[1].city \in {"New Delhi", "North Delhi"}
    /\ grievances[1].state = "Delhi"

\* the reporter of the portal: the only identity the program has is the name
UserGuest == <<"U", "s", "e", "r", " ", "G", "u", "e", "s", "t">>

\* addGrievance puts what came through the portal in front of the mock grievances
FiledThroughPortal(i) == i <= Len(grievances) - Len(MOCK_GRIEVANCES)

\* C25: the citizen's request history holds exactly the grievances filed by
\* that citizen (the reporter named User Guest): every grievance submitted
\* through the portal is in it, from the step that adds it on, no grievance of
\* another reporter is, it keeps the order of the store, and the selected
\* jurisdiction plays no part.
C25_CitizenHistory ==
    LET mine == myGrievances(grievances)
    IN  /\ \A i \in 1..Len(grievances) :
               FiledThroughPortal(i) => grievances[i] \in Range(mine)
        /\ \A i \in 1..Len(grievances) :
               grievances[i] \in Range(mine) <=> grievances[i].citizenName = UserGuest
        /\ Len(mine) = Cardinality({i \in 1..Len(grievances) : grievances[i].citizenName = UserGuest})
        /\ Len(grievances) > Len(MOCK_GRIEVANCES) => mine[1] = grievances[1]

\* a citizen of North Delhi sees their submission above the mock request of
\* Nagpur, and the grievances of the other reporters are left out
C25_HistoryAcrossCities ==
    /\ userRole = "citizen"
    /\ jurisdiction.city = "North Delhi"
    /\ Len(myGrievances(grievances)) = 2
    /\ myGrievances(grievances)[1].city = "North Delhi"
    /\ myGrievances(grievances)[2].city = "Nagpur"
    /\ Len(grievances) > 2

\* the step in which the signup settles
JoinSettles == waitlistForm.status = "loading" /\ waitlistForm'.status # "loading"

\* C26: the waitlist signup has distinct outcomes: a duplicate-key error of
\* the insert gives success = false with the 'already on the waitlist'
\* message, every other error and a thrown exception give success = false with
\* another message, and success = true is returned only when the insert
\* reported no error or no backend is configured; the form shows the outcome.
C26_WaitlistOutcomes ==
    /\ [](\A client \in {None, Some("client")}, outcome \in InsertOutcomes :
              LET result == addToWaitlist(client, outcome)
                  duplicate == outcome.error = Some("23505")
                  failure == outcome.thrown \/ (outcome.error # None /\ ~duplicate)
              IN  /\ (client # None /\ duplicate)
                         => ~result.success /\ result.message = AlreadyOnWaitlist
                  /\ (client # None /\ failure)
                         => /\ ~result.success
                            /\ result.message \notin {AlreadyOnWaitlist, WelcomeAboard,
                                                      SimulationRegistered}
                  /\ result.success <=> (client = None \/ outcome = Inserted))
    /\ [][JoinSettles
              => /\ waitlistForm'.status \in {"success", "error"}
                 /\ waitlistForm'.status = "success"
                        => \/ supabase = None
                           \/ waitlistForm.email \in waitlist' \ waitlist
                 /\ waitlistForm'.message = AlreadyOnWaitlist
                        => waitlistForm'.status = "error" /\ waitlistForm.email \in waitlist
                 /\ waitlistForm'.status = "error"
                        => /\ waitlist' = waitlist
                           /\ waitlistForm'.message \in {AlreadyOnWaitlist, UnableToJoin,
                                                          SomethingWentWrong}]_vars

\* an email was registered and a second signup with it was told so
C26_ToldAlreadyRegistered ==
    /\ supabase # None
    /\ waitlistForm.status = "error"
    /\ waitlistForm.message = AlreadyOnWaitlist
    /\ waitlist = {"a@gov.in", "b@gov.in"}

\* the calls of analyzeGrievance started by the portal on the screen
MountedCalls == {k \in 1..Len(inflight) : inflight[k].mounted}

C28_NoLostUpdate ==
    \A id \in AssignIdInputs, status \in Range(GrievanceStatus), officer \in AssignNameInputs :
        LET statusFirst == assignGrievance(updateGrievanceStatus(grievances, id, status), id, officer)
            officerFirst == updateGrievanceStatus(assignGrievance(grievances, id, officer), id, status)
        IN  /\ statusFirst = officerFirst
            /\ \A i \in 1..Len(grievances) :
                   grievances[i].id = id
                       => /\ statusFirst[i].status = status
                          /\ statusFirst[i].assignedTo = (IF officer = "" THEN None ELSE Some(officer))
            /\ \A other \in AssignIdInputs \ {id}, status2 \in Range(GrievanceStatus),
                   officer2 \in AssignNameInputs :
                   /\ updateGrievanceStatus(assignGrievance(grievances, id, officer), other, status2)
                        = assignGrievance(updateGrievanceStatus(grievances, other, status2), id, officer)
                   /\ updateGrievanceStatus(updateGrievanceStatus(grievances, id, status), other, status2)
                        = updateGrievanceStatus(updateGrievanceStatus(grievances, other, status2), id, status)
                   /\ assignGrievance(assignGrievance(grievances, id, officer), other, officer2)
                        = assignGrievance(assignGrievance(grievances, other, officer2), id, officer)

\* both grievances carry a status update and an assignment
C28_BothUpdatedTwice ==
    \E i, j \in 1..Len(grievances) :
        /\ grievances[i].id = 1024
        /\ grievances[i].status = "RESOLVED"
        /\ grievances[i].assignedTo = Some("Priya Patel")
        /\ grievances[j].id = 1025
        /\ grievances[j].status = "IN_PROGRESS"
        /\ grievances[j].assignedTo = Some("Priya Patel")

RECURSIVE SumEscalations(_, _)
SumEscalations(rows, n) ==
    IF n = 0 THEN 0 ELSE SumEscalations(rows, n - 1) + rows[n].escalations

====
